---- MODULE Spec2Model ----
(***************************************************************************)
(* Model of easy_alert.watcher.log_watcher.LogWatcher: the two-phase       *)
(* watch() / after_success() protocol over a watch directory, the line     *)
(* parser _parse_files and the summary builder _make_result.               *)
(***************************************************************************)
EXTENDS Integers, Sequences, FiniteSets, TLC

VARIABLES
    dir,            \* the watch directory: file names in listing order
    content,        \* file name -> its lines, each line already split on tabs
    config,         \* the config dict handed to __init__
    print_only,     \* self.print_only (dry-run)
    target_paths,   \* self.target_paths
    last_call,      \* "none" | "watch" | "after_success": the call just made
    raised,         \* the call just made ended with an uncaught exception
    ret,            \* the list of alerts the call just made returned
    log,            \* logger.info records written by the call just made
    remove_calls,   \* os.remove calls issued by the call just made, in order
    repeated        \* the call just made is a watch() directly after a watch()

vars == <<dir, content, config, print_only, target_paths, last_call, raised,
          ret, log, remove_calls, repeated>>

-----------------------------------------------------------------------------
(* Bounds *)

\* SpecParse: total number of lines over all target files
MaxLines == 3

-----------------------------------------------------------------------------
(* Program constants *)

WARN == 30
ERROR == 40

DEFAULT_TARGET_PATTERN == "alert.????????_????_*.log"
DEFAULT_PENDING_PATTERN == "alert.????????_????*"
DEFAULT_MESSAGE_THRESHOLD == 15
DEFAULT_PENDING_THRESHOLD == 3

\* target_paths=None passed to the base constructor
None == <<"None">>

MSG_LOG_ALERT == "MSG_LOG_ALERT"
MSG_LOG_ALERT_TITLE == "MSG_LOG_ALERT_TITLE"
MSG_LOG_ALERT_PENDING == "MSG_LOG_ALERT_PENDING"
MSG_LOG_ALERT_PENDING_TITLE == "MSG_LOG_ALERT_PENDING_TITLE"

\* MSG_LOG_SUMMARY % {'tag': k, 'count': cnt}
MSG_LOG_SUMMARY(k, cnt) == [kind |-> "summary", tag |-> k, count |-> cnt, text |-> ""]

MSG_LOG_SNIP == [kind |-> "snip", tag |-> <<>>, count |-> 0, text |-> ""]

\* a sample message appended to buf
MsgLine(msg) == [kind |-> "msg", tag |-> <<>>, count |-> 0, text |-> msg]

\* buf.append('')
BlankLine == [kind |-> "blank", tag |-> <<>>, count |-> 0, text |-> ""]

get_server_id == "server"

-----------------------------------------------------------------------------
(* The environment: file names, tags, lines *)

\* rotated, complete files: match the target and the pending pattern
TargetA == "alert.20240101_0000_0.log"
TargetB == "alert.20240101_0001_0.log"
TargetNames == {TargetA, TargetB}

\* buffer files still being written: match the pending pattern only
PendingNames == {"alert.20240101_0002.b1", "alert.20240101_0003.b2",
                 "alert.20240101_0004.b3"}

Names == TargetNames \cup PendingNames

\* fnmatch of a file name of the watch directory against a pattern
fnmatch(name, pattern) ==
    IF pattern = DEFAULT_TARGET_PATTERN THEN name \in TargetNames
    ELSE IF pattern = DEFAULT_PENDING_PATTERN THEN name \in Names
    ELSE FALSE

\* character codes, for the byte-wise order of str
Ord(c) ==
    CASE c = "." -> 46
      [] c = "E" -> 69
      [] c = "O" -> 79
      [] c = "R" -> 82
      [] c = "a" -> 97
      [] c = "b" -> 98
      [] c = "e" -> 101
      [] c = "n" -> 110
      [] c = "o" -> 111
      [] c = "r" -> 114
      [] c = "w" -> 119

\* tags are strings, modelled as sequences of characters
TagBError == <<"b", ".", "e", "r", "r", "o", "r">>
TagAWarn == <<"a", ".", "w", "a", "r", "n">>
TagAUpper == <<"a", ".", "E", "R", "R", "O", "R">>

Tags == {TagBError, TagAWarn, TagAUpper}

Messages == {"m1", "m2"}

\* a JSON payload: whether it parses, and the object's key/value pairs
Payload(valid, obj) == [valid |-> valid, obj |-> obj]

\* a well-formed line "time \t tag \t {"message": msg}" after split('\t')
OkLine(tag, msg) == <<"ts", tag, Payload(TRUE, {<<"message", msg>>})>>

\* fewer than three tab-separated fields
ShortLine == <<"ts", TagAWarn>>

\* the payload is not valid JSON
BadJsonLine == <<"ts", TagAWarn, Payload(FALSE, {})>>

\* a JSON object without the 'message' key
NoMessageLine == <<"ts", TagAWarn, Payload(TRUE, {<<"text", "m1">>})>>

OkLines == {OkLine(tag, msg) : tag \in Tags, msg \in Messages}

MalformedLines == {ShortLine, BadJsonLine, NoMessageLine}

Lines == OkLines \cup MalformedLines

\* file contents the pipeline writes in the protocol specification
ProtoContents ==
    { <<>>,
      <<OkLine(TagAWarn, "m1")>>,
      <<OkLine(TagBError, "m1")>>,
      <<BadJsonLine>> }

\* datetime.now()
Times == {1, 2}

-----------------------------------------------------------------------------
(* Helpers *)

Range(s) == {s[i] : i \in DOMAIN s}

Lower(c) ==
    CASE c = "E" -> "e"
      [] c = "O" -> "o"
      [] c = "R" -> "r"
      [] OTHER -> c

\* variant: the comparison ignores case, as s.lower().endswith(suffix) would
endswithIgnoreCase(s, suffix) ==
    /\ Len(s) >= Len(suffix)
    /\ \A i \in 1..Len(suffix) :
         Lower(s[Len(s) - Len(suffix) + i]) = Lower(suffix[i])

\* str.endswith
endswith(s, suffix) ==
    /\ Len(s) >= Len(suffix)
    /\ SubSeq(s, Len(s) - Len(suffix) + 1, Len(s)) = suffix

ErrorSuffix == <<".", "e", "r", "r", "o", "r">>

\* s < t for str: byte-wise lexicographic order
RECURSIVE StrLess(_, _)
StrLess(s, t) ==
    IF t = <<>> THEN FALSE
    ELSE IF s = <<>> THEN TRUE
    ELSE IF Ord(Head(s)) # Ord(Head(t)) THEN Ord(Head(s)) < Ord(Head(t))
    ELSE StrLess(Tail(s), Tail(t))

\* sorted(keys)
RECURSIVE sorted(_)
sorted(S) ==
    IF S = {} THEN <<>>
    ELSE LET m == CHOOSE x \in S : \A y \in S \ {x} : StrLess(x, y)
         IN  <<m>> \o sorted(S \ {m})

\* glob.glob(pattern): the matching names, in the directory's listing order
glob(pattern) == SelectSeq(dir, LAMBDA name : fnmatch(name, pattern))

\* config.get('message_threshold') or DEFAULT_MESSAGE_THRESHOLD
message_threshold ==
    IF config.message_threshold # 0 THEN config.message_threshold
    ELSE DEFAULT_MESSAGE_THRESHOLD

\* config.get('pending_threshold') or DEFAULT_PENDING_THRESHOLD
pending_threshold ==
    IF config.pending_threshold # 0 THEN config.pending_threshold
    ELSE DEFAULT_PENDING_THRESHOLD

target_pattern == DEFAULT_TARGET_PATTERN

pending_pattern == DEFAULT_PENDING_PATTERN

Alert(time, level, title, message) ==
    [time |-> time, level |-> level, title |-> title, message |-> message]

-----------------------------------------------------------------------------
(* _check_pending *)

\* variant: the threshold compared with > instead of >=
_check_pendingStrict(start_time) ==
    LET paths == glob(pending_pattern)
    IN  IF Len(paths) > pending_threshold
        THEN << Alert(start_time, WARN, MSG_LOG_ALERT_PENDING_TITLE,
                      [template |-> MSG_LOG_ALERT_PENDING,
                       server_id |-> get_server_id,
                       pattern |-> pending_pattern,
                       paths |-> paths,
                       result |-> <<>>]) >>
        ELSE <<>>

_check_pending(start_time) ==
    LET paths == glob(pending_pattern)
    IN  IF Len(paths) >= pending_threshold
        THEN << Alert(start_time, WARN, MSG_LOG_ALERT_PENDING_TITLE,
                      [template |-> MSG_LOG_ALERT_PENDING,
                       server_id |-> get_server_id,
                       pattern |-> pending_pattern,
                       paths |-> paths,
                       result |-> <<>>]) >>
        ELSE <<>>

-----------------------------------------------------------------------------
(* _parse_files *)

\* d[tag] of the defaultdict(lambda: (0, []))
DictGet(d, tag) == IF tag \in DOMAIN d THEN d[tag] ELSE <<0, <<>>>>

HasKey(obj, key) == \E kv \in obj : kv[1] = key

GetKey(obj, key) == (CHOOSE kv \in obj : kv[1] = key)[2]

\* variant: a message is kept while cnt < message_threshold
ParseLineOffByOne(st, tokens) ==
    IF st.raised THEN st
    ELSE IF Len(tokens) < 3 THEN [st EXCEPT !.raised = TRUE]
    ELSE IF ~tokens[3].valid THEN [st EXCEPT !.raised = TRUE]
    ELSE IF ~HasKey(tokens[3].obj, "message") THEN [st EXCEPT !.raised = TRUE]
    ELSE
        LET tag == tokens[2]
            msg == GetKey(tokens[3].obj, "message")
            cnt == DictGet(st.d, tag)[1] + 1
            msgs == IF cnt < message_threshold
                    THEN Append(DictGet(st.d, tag)[2], msg)
                    ELSE DictGet(st.d, tag)[2]
        IN  [d |-> (tag :> <<cnt, msgs>>) @@ st.d,
             max_level |-> IF st.max_level = WARN /\ endswith(tag, ErrorSuffix)
                           THEN ERROR ELSE st.max_level,
             raised |-> FALSE]

\* variant: a malformed line is skipped instead of ending the parse
ParseLineSkip(st, tokens) ==
    IF st.raised THEN st
    ELSE IF Len(tokens) < 3 THEN st
    ELSE IF ~tokens[3].valid THEN st
    ELSE IF ~HasKey(tokens[3].obj, "message") THEN st
    ELSE
        LET tag == tokens[2]
            msg == GetKey(tokens[3].obj, "message")
            cnt == DictGet(st.d, tag)[1] + 1
            msgs == IF cnt <= message_threshold
                    THEN Append(DictGet(st.d, tag)[2], msg)
                    ELSE DictGet(st.d, tag)[2]
        IN  [d |-> (tag :> <<cnt, msgs>>) @@ st.d,
             max_level |-> IF st.max_level = WARN /\ endswith(tag, ErrorSuffix)
                           THEN ERROR ELSE st.max_level,
             raised |-> FALSE]

\* the body of the inner loop for one line; an exception ends the parse.
\* tokens[2] raises IndexError on fewer than three fields, json.loads raises
\* ValueError on an invalid payload, ['message'] raises KeyError on a missing
\* key.  decode('utf-8', 'ignore') never raises and is not represented: a
\* payload is given by whether it parses and by the object it parses to.
ParseLine(st, tokens) ==
    IF st.raised THEN st
    ELSE IF Len(tokens) < 3 THEN [st EXCEPT !.raised = TRUE]
    ELSE IF ~tokens[3].valid THEN [st EXCEPT !.raised = TRUE]
    ELSE IF ~HasKey(tokens[3].obj, "message") THEN [st EXCEPT !.raised = TRUE]
    ELSE
        LET tag == tokens[2]
            msg == GetKey(tokens[3].obj, "message")
            cnt == DictGet(st.d, tag)[1] + 1
            msgs == IF cnt <= message_threshold
                    THEN Append(DictGet(st.d, tag)[2], msg)
                    ELSE DictGet(st.d, tag)[2]
        IN  [d |-> (tag :> <<cnt, msgs>>) @@ st.d,
             max_level |-> IF st.max_level = WARN /\ endswith(tag, ErrorSuffix)
                           THEN ERROR ELSE st.max_level,
             raised |-> FALSE]

\* for line in open(path)
RECURSIVE ParseFile(_, _)
ParseFile(st, lines) ==
    IF lines = <<>> THEN st
    ELSE ParseFile(ParseLine(st, Head(lines)), Tail(lines))

\* for path in paths
RECURSIVE ParsePaths(_, _)
ParsePaths(st, paths) ==
    IF paths = <<>> THEN st
    ELSE ParsePaths(ParseFile(st, content[Head(paths)]), Tail(paths))

_parse_files(paths) ==
    ParsePaths([d |-> <<>>, max_level |-> WARN, raised |-> FALSE], paths)

-----------------------------------------------------------------------------
(* _make_result *)

\* the lines one tag contributes to buf
Section(k, entry) ==
    <<MSG_LOG_SUMMARY(k, entry[1])>>
    \o [i \in 1..Len(entry[2]) |-> MsgLine(entry[2][i])]
    \o (IF entry[1] > message_threshold THEN <<MSG_LOG_SNIP>> ELSE <<>>)
    \o <<BlankLine>>

RECURSIVE JoinSections(_, _)
JoinSections(keys, result) ==
    IF keys = <<>> THEN <<>>
    ELSE Section(Head(keys), result[Head(keys)]) \o JoinSections(Tail(keys), result)

\* variant: the keys in decreasing order, as sorted(keys, reverse=True)
ResultKeysReversed(result) ==
    LET up == sorted(DOMAIN result)
    IN  [i \in 1..Len(up) |-> up[Len(up) + 1 - i]]

ResultKeys(result) == sorted(DOMAIN result)

_make_result(result) == JoinSections(ResultKeys(result), result)

-----------------------------------------------------------------------------
(* watch *)

\* variant: paths tracked by the previous call are left out
WatchTargetPathsUnseen ==
    SelectSeq(glob(target_pattern), LAMBDA n : n \notin Range(target_paths))

\* self.target_paths = glob.glob(self.target_pattern)
WatchTargetPaths == glob(target_pattern)

\* the value watch() returns, or <<>> when it raises
WatchReturn(start_time, paths) ==
    IF paths = <<>> THEN _check_pending(start_time)
    ELSE LET parsed == _parse_files(paths)
         IN  IF parsed.raised THEN <<>>
             ELSE << Alert(start_time, parsed.max_level, MSG_LOG_ALERT_TITLE,
                           [template |-> MSG_LOG_ALERT,
                            server_id |-> get_server_id,
                            pattern |-> "",
                            paths |-> <<>>,
                            result |-> _make_result(parsed.d)]) >>

WatchRaises(paths) == paths # <<>> /\ _parse_files(paths).raised

\* variant: watch() removes the files it parsed
WatchDirEager == SelectSeq(dir, LAMBDA n : ~fnmatch(n, target_pattern))

\* the directory after watch()
WatchDir == dir

watch ==
    \E start_time \in Times :
        /\ target_paths' = WatchTargetPaths
        /\ ret' = WatchReturn(start_time, target_paths')
        /\ raised' = WatchRaises(target_paths')
        /\ dir' = WatchDir
        /\ content' = [n \in Names |-> IF n \in Range(dir') THEN content[n] ELSE <<>>]
        /\ last_call' = "watch"
        /\ repeated' = (last_call = "watch")
        /\ log' = <<>>
        /\ remove_calls' = <<>>
        /\ UNCHANGED <<config, print_only>>

-----------------------------------------------------------------------------
(* after_success *)

\* the directory without one name
Without(d, name) == SelectSeq(d, LAMBDA n : n # name)

\* the loop over self.target_paths with print_only false: os.remove(path)
\* raises OSError when the path does not exist, which ends the loop
RECURSIVE RemoveEach(_, _)
RemoveEach(st, paths) ==
    IF paths = <<>> \/ st.raised THEN st
    ELSE LET path == Head(paths)
         IN  IF path \in Range(st.dir)
             THEN RemoveEach([dir |-> Without(st.dir, path),
                              calls |-> Append(st.calls, path),
                              raised |-> FALSE], Tail(paths))
             ELSE [dir |-> st.dir,
                   calls |-> Append(st.calls, path),
                   raised |-> TRUE]

\* variant: after_success() globs the pending pattern again
RemovablePathsPending == glob(pending_pattern)

\* the paths after_success() may remove
RemovablePaths == target_paths

\* logger.info('Would remove: %s' % path)
WouldRemove(paths) == [i \in 1..Len(paths) |-> <<"Would remove: ", paths[i]>>]

after_success ==
    /\ last_call' = "after_success"
    /\ repeated' = FALSE
    /\ ret' = <<>>
    /\ UNCHANGED <<config, print_only, target_paths>>
    /\ IF target_paths = None
       THEN \* iterating None raises TypeError
            /\ raised' = TRUE
            /\ log' = <<>>
            /\ remove_calls' = <<>>
            /\ UNCHANGED <<dir, content>>
       ELSE IF print_only
       THEN /\ raised' = FALSE
            /\ log' = WouldRemove(target_paths)
            /\ remove_calls' = <<>>
            /\ UNCHANGED <<dir, content>>
       ELSE LET r == RemoveEach([dir |-> dir, calls |-> <<>>, raised |-> FALSE],
                                RemovablePaths)
            IN  /\ raised' = r.raised
                /\ log' = <<>>
                /\ remove_calls' = r.calls
                /\ dir' = r.dir
                /\ content' = [n \in Names |->
                                 IF n \in Range(r.dir) THEN content[n] ELSE <<>>]

-----------------------------------------------------------------------------
(* The environment *)

\* the log-shipping pipeline writes a file into the watch directory
CreateFile ==
    \E name \in Names \ Range(dir) :
        \E c \in (IF name \in TargetNames THEN ProtoContents ELSE {<<>>}) :
            /\ dir' = Append(dir, name)
            /\ content' = [content EXCEPT ![name] = c]
            /\ last_call' = "none"
            /\ repeated' = FALSE
            /\ raised' = FALSE
            /\ ret' = <<>>
            /\ log' = <<>>
            /\ remove_calls' = <<>>
            /\ UNCHANGED <<config, print_only, target_paths>>

\* something other than the watcher removes a file
RemoveFile ==
    \E name \in Range(dir) :
        /\ dir' = Without(dir, name)
        /\ content' = [content EXCEPT ![name] = <<>>]
        /\ last_call' = "none"
        /\ repeated' = FALSE
        /\ raised' = FALSE
        /\ ret' = <<>>
        /\ log' = <<>>
        /\ remove_calls' = <<>>
        /\ UNCHANGED <<config, print_only, target_paths>>

-----------------------------------------------------------------------------
(* Specifications *)

\* __init__: target_paths=None, nothing called yet
InitWatcher ==
    /\ target_paths = None
    /\ last_call = "none"
    /\ repeated = FALSE
    /\ raised = FALSE
    /\ ret = <<>>
    /\ log = <<>>
    /\ remove_calls = <<>>

\* The protocol: an empty watch directory, the pipeline and others change it
Init ==
    /\ InitWatcher
    /\ config \in [message_threshold : {0, 1}, pending_threshold : {0, 2}]
    /\ print_only \in BOOLEAN
    /\ dir = <<>>
    /\ content = [n \in Names |-> <<>>]

Next == CreateFile \/ RemoveFile \/ watch \/ after_success

Spec == Init /\ [][Next]_vars

\* The parser: target files with at most MaxLines lines in all, in any
\* listing order, read by watch()
InitParse ==
    /\ InitWatcher
    /\ config \in [message_threshold : {0, 1, 2}, pending_threshold : {0}]
    /\ print_only = FALSE
    /\ dir \in {<<>>, <<TargetA>>, <<TargetB>>, <<TargetA, TargetB>>, <<TargetB, TargetA>>}
    /\ \E na \in 0..MaxLines :
         \E nb \in 0..(MaxLines - na) :
           \E ca \in [1..na -> Lines] :
             \E cb \in [1..nb -> Lines] :
               content = [n \in Names |->
                            IF n = TargetA /\ n \in Range(dir) THEN ca
                            ELSE IF n = TargetB /\ n \in Range(dir) THEN cb
                            ELSE <<>>]

NextParse == watch

SpecParse == InitParse /\ [][NextParse]_vars

-----------------------------------------------------------------------------
(* Vocabulary of the properties *)

\* the lines watch() reads, in read order
RECURSIVE LinesRead(_)
LinesRead(paths) ==
    IF paths = <<>> THEN <<>>
    ELSE content[Head(paths)] \o LinesRead(Tail(paths))

IsWellFormed(line) ==
    /\ Len(line) >= 3
    /\ line[3].valid
    /\ \E kv \in line[3].obj : kv[1] = "message"

\* the tag's last six characters are ".error"
HasErrorSuffix(tag) ==
    /\ Len(tag) >= 6
    /\ \A i \in 1..6 : tag[Len(tag) - 6 + i] = ErrorSuffix[i]

\* the messages of the lines carrying a tag, in read order
MessagesOf(tag, lines) ==
    LET mine == SelectSeq(lines, LAMBDA l : l[2] = tag)
    IN  [i \in 1..Len(mine) |-> (CHOOSE kv \in mine[i][3].obj : kv[1] = "message")[2]]

Min(a, b) == IF a <= b THEN a ELSE b

\* s comes strictly before t in lexicographic order of character codes
LexBefore(s, t) ==
    \E k \in 1..(Len(t)) :
        /\ k <= Len(s) + 1
        /\ \A i \in 1..(k - 1) : s[i] = t[i]
        /\ (k = Len(s) + 1 \/ Ord(s[k]) < Ord(t[k]))

\* a successful watch() over at least one target file
WatchedTargets == last_call = "watch" /\ ~raised /\ target_paths # <<>>

\* the summary body of the alert watch() returned
Body == ret[1].message.result

HeaderIdx(body, tag) ==
    {i \in DOMAIN body : body[i].kind = "summary" /\ body[i].tag = tag}

\* the lines of a tag's section after its header, up to the blank separator
SectionLines(body, tag) ==
    LET h == CHOOSE i \in HeaderIdx(body, tag) : TRUE
        e == CHOOSE j \in (h + 1)..Len(body) :
                /\ body[j].kind = "blank"
                /\ \A m \in (h + 1)..(j - 1) : body[m].kind # "blank"
    IN  SubSeq(body, h + 1, e - 1)

SamplesIn(body, tag) ==
    LET msgs == SelectSeq(SectionLines(body, tag), LAMBDA l : l.kind = "msg")
    IN  [i \in 1..Len(msgs) |-> msgs[i].text]

HasSnip(body, tag) == \E i \in DOMAIN SectionLines(body, tag) :
                          SectionLines(body, tag)[i].kind = "snip"

\* the tags of the header lines of a body, in order of appearance
HeaderTags(body) ==
    LET hs == SelectSeq(body, LAMBDA l : l.kind = "summary")
    IN  [i \in 1..Len(hs) |-> hs[i].tag]

TargetFiles == Range(dir) \cap TargetNames

PendingFiles == Range(dir)

SameContent(a, b) ==
    /\ Len(a) = Len(b)
    /\ \A i \in DOMAIN a :
        /\ a[i].level = b[i].level
        /\ a[i].title = b[i].title
        /\ a[i].message = b[i].message

-----------------------------------------------------------------------------
(* Properties of the parser, under SpecParse *)

\* C1: over a non-empty set of target files whose lines are all well-formed,
\* watch() returns exactly one Alert; its level is ERROR if and only if some
\* line read carries a tag ending in ".error", and WARN otherwise.
C1_OneAlertSeverity ==
    (/\ last_call = "watch"
     /\ target_paths # <<>>
     /\ \A line \in Range(LinesRead(target_paths)) : IsWellFormed(line))
    => /\ ~raised
       /\ Len(ret) = 1
       /\ ret[1].title = MSG_LOG_ALERT_TITLE
       /\ ret[1].level \in {WARN, ERROR}
       /\ (ret[1].level = ERROR
             <=> \E line \in Range(LinesRead(target_paths)) : HasErrorSuffix(line[2]))

\* two files, the ".error" tag only in the second one, an ".ERROR" tag in the first
C1_Witness ==
    /\ WatchedTargets
    /\ Len(target_paths) = 2
    /\ Len(ret) = 1
    /\ ret[1].level = ERROR
    /\ \E line \in Range(content[target_paths[1]]) : line[2] = TagAUpper
    /\ \A line \in Range(content[target_paths[1]]) : line[2] # TagBError
    /\ \E line \in Range(content[target_paths[2]]) : line[2] = TagBError

\* C2: after a successful parse, for every tag with count lines the samples
\* retained are the first min(count, message_threshold) messages in read order,
\* the header shows count, and the tag's section carries the truncation marker
\* if and only if count > message_threshold.
C2_SamplesAndMarker ==
    WatchedTargets =>
        \A tag \in Tags :
            LET msgs == MessagesOf(tag, LinesRead(target_paths))
                count == Len(msgs)
                kept == Min(count, message_threshold)
            IN  count > 0 =>
                  /\ Cardinality(HeaderIdx(Body, tag)) = 1
                  /\ \A i \in HeaderIdx(Body, tag) : Body[i].count = count
                  /\ Len(SamplesIn(Body, tag)) = kept
                  /\ SamplesIn(Body, tag) = SubSeq(msgs, 1, kept)
                  /\ _parse_files(target_paths).d[tag] = <<count, SubSeq(msgs, 1, kept)>>
                  /\ (HasSnip(Body, tag) <=> count > message_threshold)

\* three lines of one tag over two files with threshold 2: the third is elided
C2_Witness ==
    /\ WatchedTargets
    /\ message_threshold = 2
    /\ Len(target_paths) = 2
    /\ content[target_paths[1]] # <<>>
    /\ MessagesOf(TagAWarn, LinesRead(target_paths)) = <<"m2", "m1", "m2">>
    /\ SamplesIn(Body, TagAWarn) = <<"m2", "m1">>
    /\ HasSnip(Body, TagAWarn)

\* C7: in the summary body every tag read has exactly one header, and the
\* headers are in strictly increasing lexicographic order, whatever the order
\* in which files and lines were read.
C7_TagsSorted ==
    WatchedTargets =>
        LET tags == HeaderTags(Body)
        IN  /\ Range(tags) = {line[2] : line \in Range(LinesRead(target_paths))}
            /\ \A i \in DOMAIN tags : \A j \in DOMAIN tags :
                 i < j => LexBefore(tags[i], tags[j])

\* the three tags read in decreasing order come out in increasing order
C7_Witness ==
    /\ WatchedTargets
    /\ Len(LinesRead(target_paths)) = 3
    /\ LinesRead(target_paths)[1][2] = TagBError
    /\ LinesRead(target_paths)[2][2] = TagAWarn
    /\ LinesRead(target_paths)[3][2] = TagAUpper
    /\ HeaderTags(Body) = <<TagAUpper, TagAWarn, TagBError>>

\* C9: a watch() that meets a malformed line in any target file raises: it
\* returns no Alert, and leaves the directory and the files as they were.
C9_MalformedRaises ==
    [][(/\ last_call' = "watch"
        /\ \E line \in Range(LinesRead(glob(target_pattern))) : ~IsWellFormed(line))
       => /\ raised'
          /\ ret' = <<>>
          /\ dir' = dir
          /\ content' = content]_vars

\* the malformed line is the last one of the second file, after good lines
C9_Witness ==
    /\ last_call = "watch"
    /\ raised
    /\ ret = <<>>
    /\ Len(target_paths) = 2
    /\ Len(content[target_paths[1]]) = 1
    /\ Len(content[target_paths[2]]) = 2
    /\ IsWellFormed(content[target_paths[1]][1])
    /\ IsWellFormed(content[target_paths[2]][1])
    /\ content[target_paths[2]][2] = NoMessageLine

-----------------------------------------------------------------------------
(* Properties of the protocol, under Spec *)

\* C3: a watch() that finds no target file returns one WARN alert listing
\* all pending paths when their number is at least pending_threshold, and an
\* empty list when it is below; with a target file the alert returned is never
\* the pending alert.
C3_PendingAlert ==
    last_call = "watch" =>
        IF TargetFiles = {}
        THEN /\ ~raised
             /\ IF Cardinality(PendingFiles) >= pending_threshold
                THEN /\ Len(ret) = 1
                     /\ ret[1].level = WARN
                     /\ ret[1].title = MSG_LOG_ALERT_PENDING_TITLE
                     /\ Len(ret[1].message.paths) = Cardinality(PendingFiles)
                     /\ Range(ret[1].message.paths) = PendingFiles
                ELSE ret = <<>>
        ELSE \A i \in DOMAIN ret : ret[i].title = MSG_LOG_ALERT_TITLE

\* the default threshold 3 with exactly three pending files
C3_Witness ==
    /\ last_call = "watch"
    /\ config.pending_threshold = 0
    /\ pending_threshold = 3
    /\ TargetFiles = {}
    /\ Cardinality(PendingFiles) = 3
    /\ Len(ret) = 1

\* C4: after_success() in normal mode leaves the directory without exactly
\* the paths captured by the most recent watch(); in dry-run mode it removes
\* nothing and logs one message per captured path.
C4_DeletesExactlyCaptured ==
    [][(last_call' = "after_success" /\ target_paths # None)
       => IF print_only
          THEN /\ dir' = dir
               /\ remove_calls' = <<>>
               /\ Len(log') = Len(target_paths)
          ELSE Range(dir') = Range(dir) \ Range(target_paths)]_vars

\* C5: watch() leaves the directory and the files unchanged, and a file
\* disappears in a call of the watcher only in after_success(), and only if
\* the preceding watch() captured it.
C5_TwoPhase ==
    [][/\ last_call' = "watch" => (dir' = dir /\ content' = content)
       /\ last_call' = "after_success" =>
            \A n \in Range(dir) \ Range(dir') : n \in Range(target_paths)]_vars

\* after_success() removed two captured files and left a pending one
C5_Witness ==
    /\ last_call = "after_success"
    /\ ~raised
    /\ Len(remove_calls) = 2
    /\ Range(dir) \cap PendingNames # {}

\* C6: a watch() directly after a watch() returns alerts of the same level,
\* title and body, raises if and only if the first did, and tracks the same
\* target paths.
C6_Idempotent ==
    [][(last_call = "watch" /\ last_call' = "watch")
       => /\ SameContent(ret, ret')
          /\ raised' = raised
          /\ target_paths' = target_paths]_vars

\* the second of two watch() calls in a row, over two target files
C6_Witness ==
    /\ repeated
    /\ last_call = "watch"
    /\ Len(target_paths) = 2
    /\ Len(ret) = 1
    /\ ret[1].level = ERROR

\* C8: after_success() in normal mode does not raise and calls os.remove
\* once for each captured path, in order, also when a removal fails.
C8_NoRaiseOnFailure ==
    (last_call = "after_success" /\ ~print_only /\ target_paths # None)
    => /\ ~raised
       /\ remove_calls = target_paths

\* C10: a watch() that finds no target file tracks the empty path set; with
\* the empty path set after_success() removes and logs nothing; and no call of
\* the watcher removes a file that matches only the pending pattern.
C10_PendingNeverDeleted ==
    [][/\ (last_call' = "watch" /\ TargetFiles = {}) => target_paths' = <<>>
       /\ (last_call' = "after_success" /\ target_paths = <<>>)
            => /\ dir' = dir
               /\ content' = content
               /\ log' = <<>>
               /\ remove_calls' = <<>>
               /\ ~raised'
       /\ last_call' \in {"watch", "after_success"}
            => Range(dir) \cap PendingNames \subseteq Range(dir')]_vars

\* after_success() in normal mode after a pending alert over three pending files
C10_Witness ==
    /\ last_call = "after_success"
    /\ ~print_only
    /\ target_paths = <<>>
    /\ remove_calls = <<>>
    /\ TargetFiles = {}
    /\ Cardinality(PendingFiles) = 3

====
